---------------------------- MODULE Spec2Model ----------------------------
(* A model of the RecurringRevenueContract of src/src/lib.rs: one persisted  *)
(* record (seven storage keys), the three contract functions init, withdraw *)
(* and fix_amount, the token contract they call, and the ledger clock.      *)
(*                                                                          *)
(* Integers keep their width, scaled down: u64 is a word of U64Bits bits    *)
(* and i128 a two's complement word of I128Bits bits. An arithmetic         *)
(* overflow panics in a build with overflow checks and wraps in one         *)
(* without; the build is fixed for the life of a deployed contract          *)
(* (overflow_checks).                                                       *)
EXTENDS Integers, FiniteSets, TLC

\* ---------------------------------------------------------------- bounds
U64Bits == 4
I128Bits == 8
MaxTime == 3
MaxStep == 2
MaxAmount == 2

\* the token ledger: every account starts with InitBalance, enough for one
\* payment of MaxAmount and not for two; an account that has approved this
\* contract has granted it InitAllowance
InitBalance == MaxAmount + 1
InitAllowance == InitBalance + 1

U64Mod == 2 ^ U64Bits
I128Mod == 2 ^ I128Bits
I128Min == 0 - (2 ^ (I128Bits - 1))
I128Max == (2 ^ (I128Bits - 1)) - 1

\* ------------------------------------------------------- inputs, identities
Accounts == {"u1", "u2"}
Contracts == {"c1"}
\* Address: Address::Account(id) or Address::Contract(id)
Address == Accounts \cup Contracts
TokenIds == {"tokA"}
\* the receiver named at init: with the invoker any address, the sender is
\* the receiver itself or the other account
Receivers == {"u2"}
\* the arguments tried: a start_epoch before and not before the step, a step
\* of zero, one and several seconds, an amount that is negative, zero, one
\* and several units
TimeArgs == {1, MaxStep}
StepArgs == {0, 1, MaxStep}
AmountArgs == {0 - 1, 0, 1, MaxAmount}
NewTimes == 1 .. MaxTime

StorageKey == {"Sender", "Receiver", "TokenId", "StartEpoch", "Amount", "Step", "Latest"}

Error == {"ContractAlreadyInitialized", "ContractNotInitialized", "InvalidAuth",
          "ReceiverAlreadyWithdrawn", "PrematureFirstWithdraw", "InvalidInvoker",
          "InvalidArguments", "ContractNotUpdated"}
\* A panic is a host trap: unwrap() of an Err or None, an arithmetic overflow
\* in a build with overflow checks, or a trap of the called token contract.
Panics == {"PanicUnwrap", "PanicOverflow", "TransferFailed"}

VARIABLES
    storage,          \* e.storage(): a function from the keys present to their values
    now,              \* e.ledger().timestamp()
    balance,          \* token contract: balance[token_id][account]
    allowance,        \* token contract: allowance[token_id][account] granted to this contract
    overflow_checks,  \* the build: TRUE when arithmetic overflow panics, FALSE when it wraps
    lastCall,         \* ghost: the last invocation: [op, invoker (its variant), result]
    initArgs,         \* ghost: the arguments of the init call that returned Ok
    lastAmount,       \* ghost: the amount given to the last init or fix_amount that returned Ok
    withdrawals       \* ghost: the number of withdraw calls that returned Ok

vars == <<storage, now, balance, allowance, overflow_checks, lastCall, initArgs, lastAmount,
          withdrawals>>

NoArgs == [invoker |-> "none"]
EmptyStorage == [k \in {} |-> 0]

\* ----------------------------------------------------------------- storage
has(st, k) == k \in DOMAIN st
set(st, k, v) == [x \in (DOMAIN st) \cup {k} |-> IF x = k THEN v ELSE st[x]]

\* --------------------------------------------------------------- arithmetic
\* a - b on u64: [ok |-> no overflow, val |-> the wrapped difference]
u64_sub(a, b) == [ok |-> a >= b, val |-> (a - b) % U64Mod]
\* a + b on u64
u64_add(a, b) == [ok |-> a + b < U64Mod, val |-> (a + b) % U64Mod]
\* a * b on i128
i128_mul(a, b) ==
    [ok |-> (a * b >= I128Min) /\ (a * b <= I128Max),
     val |-> ((a * b - I128Min) % I128Mod) + I128Min]

\* the variant of an Address: Address::Account(_) or Address::Contract(_)
variant(address) == IF address \in Accounts THEN "Account" ELSE "Contract"

\* to_account(address): Ok(id) for an account, Err(InvalidInvoker) otherwise
to_account(address) ==
    IF address \in Accounts THEN [ok |-> TRUE, id |-> address]
    ELSE [ok |-> FALSE, err |-> "InvalidInvoker"]

\* The result of an invocation: what it returns and the storage and token
\* ledger it leaves. An invocation that fails (an Err or a panic) leaves
\* nothing behind: the host discards its writes.
Outcome(result, st, bal, alw) ==
    [result |-> result, storage |-> st, balance |-> bal, allowance |-> alw]
\* `w` is the state an invocation starts in: [storage, balance, allowance]
Failed(result, w) == Outcome(result, w.storage, w.balance, w.allowance)
World == [storage |-> storage, balance |-> balance, allowance |-> allowance]


\* ------------------------------------------------------------ token contract
\* TokenClient::xfer_from(Signature::Invoker, 0, from, to, amount): this
\* contract spends its allowance over from's balance; the token contract traps
\* on a negative amount, an insufficient allowance or an insufficient balance.
\* a transfer whose failure goes unnoticed
xfer_from_unchecked(bal, alw, token_id, from, amount) == TRUE

xfer_from_ok(bal, alw, token_id, from, amount) ==
    /\ amount >= 0
    /\ alw[token_id][from] >= amount
    /\ bal[token_id][from] >= amount

debit(bal, token_id, from, amount) ==
    [bal EXCEPT ![token_id][from] = @ - amount]
credit(bal, token_id, to, amount) ==
    [bal EXCEPT ![token_id][to] = @ + amount]
spend_allowance(alw, token_id, from, amount) ==
    [alw EXCEPT ![token_id][from] = @ - amount]

\* --------------------------------------------------------------------- init
\* an init that seeds the schedule at start_epoch itself
initial_latest_at_start(start_epoch, step) == [ok |-> TRUE, val |-> start_epoch]

\* lib.rs:129 the first value of Latest: start_epoch - step on u64
initial_latest(start_epoch, step) == u64_sub(start_epoch, step)

\* a product check that forgets the amount
product_of_step(amount, step) == [ok |-> TRUE, val |-> step]

\* lib.rs:114 the product check: amount * step as i128
product(amount, step) == i128_mul(amount, step)

\* an init that forgets to seed the schedule
init_writes_without_latest(st, sender, receiver, token_id, start_epoch, amount, step, latest) ==
    LET s1 == set(st, "TokenId", token_id)
        s2 == set(s1, "Sender", sender)
        s3 == set(s2, "Receiver", receiver)
        s4 == set(s3, "StartEpoch", start_epoch)
        s5 == set(s4, "Amount", amount)
    IN  set(s5, "Step", step)

\* lib.rs:120-129 the seven writes of init, in the order of the code
init_writes(st, sender, receiver, token_id, start_epoch, amount, step, latest) ==
    LET s1 == set(st, "TokenId", token_id)
        s2 == set(s1, "Sender", sender)
        s3 == set(s2, "Receiver", receiver)
        s4 == set(s3, "StartEpoch", start_epoch)
        s5 == set(s4, "Amount", amount)
        s6 == set(s5, "Step", step)
    IN  set(s6, "Latest", latest)

\* an init that looks at its arguments before it looks for the record
init_check_arguments_first(st, amount, step) ==
    IF step = 0 THEN "InvalidArguments"
    ELSE IF ~product(amount, step).ok /\ overflow_checks THEN "PanicOverflow"
    ELSE IF product(amount, step).val = 0 THEN "InvalidArguments"
    ELSE IF has(st, "TokenId") THEN "ContractAlreadyInitialized"
    ELSE "Ok"

\* an init that checks the step and forgets the amount
init_check_step_only(st, amount, step) ==
    IF has(st, "TokenId") THEN "ContractAlreadyInitialized"
    ELSE IF step = 0 THEN "InvalidArguments"
    ELSE "Ok"

\* an init that does not look for the record
init_check_without_guard(st, amount, step) ==
    IF step = 0 THEN "InvalidArguments"
    ELSE IF ~product(amount, step).ok /\ overflow_checks THEN "PanicOverflow"
    ELSE IF product(amount, step).val = 0 THEN "InvalidArguments"
    ELSE "Ok"

\* lib.rs:102-116 the checks of init before its first write
init_check(st, amount, step) ==
    IF has(st, "TokenId") THEN "ContractAlreadyInitialized"
    ELSE IF step = 0 THEN "InvalidArguments"
    ELSE IF ~product(amount, step).ok /\ overflow_checks THEN "PanicOverflow"
    ELSE IF product(amount, step).val = 0 THEN "InvalidArguments"
    ELSE "Ok"

\* lib.rs:90-132 init as invoked by `invoker` in the state w
init_outcome(w, invoker, receiver, token_id, start_epoch, amount, step) ==
    LET check == init_check(w.storage, amount, step)
        sender == to_account(invoker)
        latest == initial_latest(start_epoch, step)
    IN  IF check # "Ok" THEN Failed(check, w)
        ELSE IF ~sender.ok THEN Failed("PanicUnwrap", w)
        ELSE IF ~latest.ok /\ overflow_checks THEN Failed("PanicOverflow", w)
        ELSE Outcome("Ok",
                     init_writes(w.storage, sender.id, receiver, token_id,
                                 start_epoch, amount, step, latest.val),
                     w.balance, w.allowance)

init(invoker, receiver, token_id, start_epoch, amount, step) ==
    LET out == init_outcome(World, invoker, receiver, token_id, start_epoch, amount, step)
    IN  /\ storage' = out.storage
        /\ balance' = out.balance
        /\ allowance' = out.allowance
        /\ lastCall' = [op |-> "init", invoker |-> variant(invoker), result |-> out.result]
        /\ initArgs' = IF out.result = "Ok"
                       THEN [invoker |-> invoker, receiver |-> receiver,
                             token_id |-> token_id, start_epoch |-> start_epoch,
                             amount |-> amount, step |-> step]
                       ELSE initArgs
        /\ lastAmount' = IF out.result = "Ok" THEN amount ELSE lastAmount
        /\ UNCHANGED <<now, overflow_checks, withdrawals>>

\* ----------------------------------------------------------------- withdraw
\* a withdraw that never looks at start_epoch
not_started_never(start_epoch, timestamp) == FALSE

\* a withdraw whose comparison with start_epoch is the wrong way round
not_started_reversed(start_epoch, timestamp) == start_epoch < timestamp

\* a withdraw that is still premature at start_epoch itself
not_started_inclusive(start_epoch, timestamp) == start_epoch >= timestamp

\* lib.rs:170 the receiver is not yet allowed to start receiving payments
not_started(start_epoch, timestamp) == start_epoch > timestamp

\* a gate that turns down the withdraw made at the very second it is due
too_soon_inclusive(due, timestamp) == due >= timestamp

\* a gate that lets a withdraw through one second early
too_soon_late(due, timestamp) == due > timestamp + 1

\* lib.rs:177 the latest withdraw occurred less than step seconds ago
too_soon(due, timestamp) == due > timestamp

\* a gate that waits two steps after the latest withdraw
next_due_two_steps(latest, step) == u64_add(latest, 2 * step)

\* lib.rs:177 latest + step on u64: when the next withdraw is due
next_due(latest, step) == u64_add(latest, step)

\* a withdraw that does not advance the schedule
new_latest_kept(latest, step) == [ok |-> TRUE, val |-> latest]

\* lib.rs:200 new_latest = latest + step on u64
new_latest(latest, step) == u64_add(latest, step)

\* a transfer that debits the sender and credits nobody
transfer_without_credit(bal, token_id, sender, receiver, amount) ==
    debit(bal, token_id, sender, amount)

\* a transfer of one unit whatever the stored amount is
transfer_of_one(bal, token_id, sender, receiver, amount) ==
    credit(debit(bal, token_id, sender, 1), token_id, receiver, 1)

\* lib.rs:187-193 the transfer: from Sender to Receiver, of Amount
transfer(bal, token_id, sender, receiver, amount) ==
    credit(debit(bal, token_id, sender, amount), token_id, receiver, amount)

\* lib.rs:134-204 withdraw as invoked by `invoker` in the state w at the
\* ledger time `timestamp`
withdraw_outcome(w, timestamp, invoker) ==
    LET st == w.storage
    IN  IF ~has(st, "TokenId") THEN Failed("ContractNotInitialized", w)
        ELSE IF ~to_account(invoker).ok THEN Failed("InvalidInvoker", w)
        ELSE IF ~({"Receiver", "Step", "Amount", "StartEpoch"} \subseteq DOMAIN st)
             THEN Failed("PanicUnwrap", w)
        ELSE IF not_started(st["StartEpoch"], timestamp)
             THEN Failed("PrematureFirstWithdraw", w)
        ELSE IF ~has(st, "Latest") THEN Failed("PanicUnwrap", w)
        ELSE LET due == next_due(st["Latest"], st["Step"])
             IN  IF ~due.ok /\ overflow_checks THEN Failed("PanicOverflow", w)
                 ELSE IF too_soon(due.val, timestamp)
                      THEN Failed("ReceiverAlreadyWithdrawn", w)
                 ELSE IF ~has(st, "Sender") THEN Failed("PanicUnwrap", w)
                 ELSE IF ~xfer_from_ok(w.balance, w.allowance, st["TokenId"],
                                       st["Sender"], st["Amount"])
                      THEN Failed("TransferFailed", w)
                 ELSE IF ~new_latest(st["Latest"], st["Step"]).ok /\ overflow_checks
                      THEN Failed("PanicOverflow", w)
                 ELSE Outcome("Ok",
                              set(st, "Latest", new_latest(st["Latest"], st["Step"]).val),
                              transfer(w.balance, st["TokenId"], st["Sender"],
                                       st["Receiver"], st["Amount"]),
                              spend_allowance(w.allowance, st["TokenId"],
                                              st["Sender"], st["Amount"]))

withdraw(invoker) ==
    LET out == withdraw_outcome(World, now, invoker)
    IN  /\ storage' = out.storage
        /\ balance' = out.balance
        /\ allowance' = out.allowance
        /\ lastCall' = [op |-> "withdraw", invoker |-> variant(invoker), result |-> out.result]
        /\ withdrawals' = IF out.result = "Ok" THEN withdrawals + 1 ELSE withdrawals
        /\ UNCHANGED <<now, overflow_checks, initArgs, lastAmount>>

\* --------------------------------------------------------------- fix_amount
\* a fix_amount that takes the amount already stored for a new one
fix_amount_outcome_accepting(w, invoker, amount) ==
    LET st == w.storage
    IN  IF amount = 0 THEN Failed("InvalidArguments", w)
        ELSE IF ~has(st, "TokenId") THEN Failed("ContractNotInitialized", w)
        ELSE IF ~has(st, "Amount") THEN Failed("PanicUnwrap", w)
        ELSE Outcome("Ok", set(st, "Amount", amount), w.balance, w.allowance)

\* a fix_amount that does not look for the record before it reads the amount
fix_amount_outcome_unguarded(w, invoker, amount) ==
    LET st == w.storage
    IN  IF amount = 0 THEN Failed("InvalidArguments", w)
        ELSE IF ~has(st, "Amount") THEN Failed("PanicUnwrap", w)
        ELSE IF st["Amount"] = amount THEN Failed("InvalidArguments", w)
        ELSE Outcome("Ok", set(st, "Amount", amount), w.balance, w.allowance)

\* a fix_amount that only an account may invoke
fix_amount_outcome_accounts_only(w, invoker, amount) ==
    LET st == w.storage
    IN  IF amount = 0 THEN Failed("InvalidArguments", w)
        ELSE IF ~has(st, "TokenId") THEN Failed("ContractNotInitialized", w)
        ELSE IF ~to_account(invoker).ok THEN Failed("InvalidInvoker", w)
        ELSE IF ~has(st, "Amount") THEN Failed("PanicUnwrap", w)
        ELSE IF st["Amount"] = amount THEN Failed("InvalidArguments", w)
        ELSE Outcome("Ok", set(st, "Amount", amount), w.balance, w.allowance)

\* lib.rs:206-238 fix_amount(amount) in the state w; the invoker is never
\* looked at
fix_amount_outcome(w, invoker, amount) ==
    LET st == w.storage
    IN  IF amount = 0 THEN Failed("InvalidArguments", w)
        ELSE IF ~has(st, "TokenId") THEN Failed("ContractNotInitialized", w)
        ELSE IF ~has(st, "Amount") THEN Failed("PanicUnwrap", w)
        ELSE IF st["Amount"] = amount THEN Failed("InvalidArguments", w)
        ELSE LET written == set(st, "Amount", amount)
             IN  IF written["Amount"] # amount THEN Failed("ContractNotUpdated", w)
                 ELSE Outcome("Ok", written, w.balance, w.allowance)

fix_amount(invoker, amount) ==
    LET out == fix_amount_outcome(World, invoker, amount)
    IN  /\ storage' = out.storage
        /\ balance' = out.balance
        /\ allowance' = out.allowance
        /\ lastCall' = [op |-> "fix_amount", invoker |-> variant(invoker), result |-> out.result]
        /\ lastAmount' = IF out.result = "Ok" THEN amount ELSE lastAmount
        /\ UNCHANGED <<now, overflow_checks, initArgs, withdrawals>>

\* -------------------------------------------------------------- environment
\* The ledger closes: the timestamp moves forward (test.rs: env.ledger().set).
set_ledger(timestamp) ==
    /\ timestamp > now
    /\ now' = timestamp
    /\ UNCHANGED <<storage, balance, allowance, overflow_checks, lastCall, initArgs,
                   lastAmount, withdrawals>>

\* ------------------------------------------------------------ specification
Init ==
    /\ storage = EmptyStorage
    /\ now = 0
    /\ balance = [t \in TokenIds |-> [a \in Accounts |-> InitBalance]]
    /\ \E granted \in {0, InitAllowance} :
            allowance = [t \in TokenIds |-> [a \in Accounts |-> granted]]
    /\ overflow_checks \in BOOLEAN
    /\ lastCall = [op |-> "none", invoker |-> "none", result |-> "Ok"]
    /\ initArgs = NoArgs
    /\ lastAmount = 0
    /\ withdrawals = 0

Next ==
    \/ \E invoker \in Address, receiver \in Receivers, token_id \in TokenIds,
          start_epoch \in TimeArgs, amount \in AmountArgs, step \in StepArgs :
            init(invoker, receiver, token_id, start_epoch, amount, step)
    \/ \E invoker \in Address : withdraw(invoker)
    \/ \E invoker \in Address, amount \in AmountArgs : fix_amount(invoker, amount)
    \/ \E timestamp \in NewTimes : set_ledger(timestamp)

Spec == Init /\ [][Next]_vars


\* ------------------------------------------------------------------- claims
Initialized == has(storage, "TokenId")

\* A step that is an invocation of the contract function `op`: the ledger
\* time stands still during an invocation and moves in every set_ledger.
Invoked(op) == now' = now /\ lastCall'.op = op
ByAccount == lastCall'.invoker = "Account"
Returned(result) == lastCall'.result = result

\* withdraw left the record and the token ledger as they were
NothingMoved == UNCHANGED <<storage, balance, allowance>>

\* its checks of lines 168-179 pass at the time t: the payments have started
\* and the next one is due (latest + step as the u64 sum the code computes)
Due(st) == (st["Latest"] + st["Step"]) % U64Mod
Eligible(st, t) == st["StartEpoch"] <= t /\ Due(st) <= t

C2_ScheduleMonotone ==
    [][(Initialized /\ Initialized')
       => (/\ storage'["Latest"] >= storage["Latest"]
           /\ (Invoked("withdraw") /\ Returned("Ok"))
                => storage'["Latest"] = storage["Latest"] + storage["Step"]
           /\ (storage'["Latest"] - (storage'["StartEpoch"] - storage'["Step"]))
                % storage'["Step"] = 0)]_vars

\* The state after n consecutive withdraw calls by an account at the time t,
\* or the outcome of the first one that fails.
RECURSIVE AfterWithdraws(_, _, _)
AfterWithdraws(w, t, n) ==
    IF n = 0 THEN Outcome("Ok", w.storage, w.balance, w.allowance)
    ELSE LET before == AfterWithdraws(w, t, n - 1)
         IN  IF before.result # "Ok" THEN before
             ELSE withdraw_outcome(before, t, CHOOSE a \in Accounts : TRUE)

\* the token contract would carry out n transfers of the stored amount
Funded(w, n) ==
    LET st == w.storage
    IN  /\ st["Amount"] >= 0
        /\ w.allowance[st["TokenId"]][st["Sender"]] >= n * st["Amount"]
        /\ w.balance[st["TokenId"]][st["Sender"]] >= n * st["Amount"]

\* the periods that are due at the time t: the k with
\* latest + k*step <= t < latest + (k+1)*step
PeriodsDue(st, t) == (t - st["Latest"]) \div st["Step"]

\* the token ledger after the sender paid the receiver `total`
Paid(w, total) ==
    transfer(w.balance, w.storage["TokenId"], w.storage["Sender"],
             w.storage["Receiver"], total)

\* the catch-up rule at a state where k periods are due and the token
\* contract carries out k transfers: k consecutive withdraws by an account
\* succeed and pay the receiver k*amount, the next one returns
\* ReceiverAlreadyWithdrawn
CatchUp(k) ==
    LET paid == AfterWithdraws(World, now, k)
        next == AfterWithdraws(World, now, k + 1)
    IN  /\ paid.result = "Ok"
        /\ paid.balance = Paid(World, k * storage["Amount"])
        /\ next.result = "ReceiverAlreadyWithdrawn"
        /\ next.balance = paid.balance

NothingPaidYet(st) == Due(st) = st["StartEpoch"]

\* the results of a withdraw by an account at the time t1 and of the one that
\* immediately follows it at the time t2
First(t1) == AfterWithdraws(World, t1, 1)
Following(t1, t2) == withdraw_outcome(First(t1), t2, CHOOSE a \in Accounts : TRUE)

C5_Premature_AsStated ==
    [][(/\ Invoked("withdraw")
        /\ Initialized
        /\ now < storage["StartEpoch"])
       => (Returned("PrematureFirstWithdraw") /\ NothingMoved)]_vars

\* C5 (amended): the same for every withdraw invoked by an account.
C5_Premature ==
    [][(/\ Invoked("withdraw") /\ ByAccount
        /\ Initialized
        /\ now < storage["StartEpoch"])
       => (Returned("PrematureFirstWithdraw") /\ NothingMoved)]_vars

\* a withdraw was turned down as premature although the sender could pay
C5_Witness ==
    /\ Initialized
    /\ lastCall = [op |-> "withdraw", invoker |-> "Account",
                   result |-> "PrematureFirstWithdraw"]
    /\ now < storage["StartEpoch"]
    /\ storage["Amount"] > 0
    /\ Funded(World, 1)

\* the token contract turns the transfer of the stored amount down
TransferFails(w) ==
    LET st == w.storage
    IN  \/ st["Amount"] < 0
        \/ w.allowance[st["TokenId"]][st["Sender"]] < st["Amount"]
        \/ w.balance[st["TokenId"]][st["Sender"]] < st["Amount"]

\* the state w with the balance and the allowance of the sender raised to
\* the stored amount where they were short of it
Refunded(w) ==
    LET st == w.storage
        t == st["TokenId"]
        s == st["Sender"]
    IN  [storage |-> st,
         balance |-> [w.balance EXCEPT ![t][s] =
                        IF @ < st["Amount"] THEN st["Amount"] ELSE @],
         allowance |-> [w.allowance EXCEPT ![t][s] =
                        IF @ < st["Amount"] THEN st["Amount"] ELSE @]]

\* C6 (a failed transfer does not advance the schedule): when the checks of
\* withdraw pass and the token transfer fails, the withdraw fails, latest and
\* every balance keep their values, and a later withdraw at the same time
\* succeeds for that same period once the transfer works.
C6_TransferFailureKeepsSchedule ==
    (/\ Initialized
     /\ Eligible(storage, now)
     /\ TransferFails(World))
    => LET out == withdraw_outcome(World, now, CHOOSE a \in Accounts : TRUE)
           retry == withdraw_outcome(Refunded(World), now, CHOOSE a \in Accounts : TRUE)
       IN  /\ out.result = "TransferFailed"
           /\ out.storage = storage
           /\ out.balance = balance
           /\ out.allowance = allowance
           /\ storage["Amount"] > 0
                => /\ retry.result = "Ok"
                   /\ retry.storage["Latest"] = Due(storage)
                   /\ retry.balance = Paid(Refunded(World), storage["Amount"])

\* a withdraw has failed in its transfer and the period is still due
C6_Witness ==
    /\ Initialized
    /\ lastCall = [op |-> "withdraw", invoker |-> "Account",
                   result |-> "TransferFailed"]
    /\ Eligible(storage, now)
    /\ storage["Amount"] > 0
    /\ TransferFails(World)

\* C7 (idempotent init guard): once init has succeeded, every later init,
\* with any arguments and any caller, returns ContractAlreadyInitialized and
\* changes none of the seven fields.
C7_InitOnce ==
    [][(Invoked("init") /\ Initialized)
       => (Returned("ContractAlreadyInitialized") /\ NothingMoved)]_vars

\* an init on an initialized record was turned down
C7_Witness ==
    /\ Initialized
    /\ lastCall.op = "init"
    /\ lastCall.result = "ContractAlreadyInitialized"

\* the record the spec has init store
RecordOf(sender, receiver, token_id, start_epoch, amount, step) ==
    [Sender |-> sender, Receiver |-> receiver, TokenId |-> token_id,
     StartEpoch |-> start_epoch, Amount |-> amount, Step |-> step,
     Latest |-> start_epoch - step]

\* C8 (successful init post-state): on an uninitialized instance, an init by
\* an account with step # 0 and amount # 0 succeeds for every start_epoch and
\* stores sender = the caller, receiver, funding_asset, start_epoch, amount
\* and step = the arguments and latest = start_epoch - step as an exact
\* integer, also when start_epoch < step.
C8_InitPostState ==
    [][(Invoked("init") /\ ~Initialized)
       => \A invoker \in Accounts, receiver \in Receivers, token_id \in TokenIds,
             start_epoch \in TimeArgs, amount \in AmountArgs \ {0},
             step \in StepArgs \ {0} :
            init(invoker, receiver, token_id, start_epoch, amount, step)
              => /\ Returned("Ok")
                 /\ storage' = RecordOf(invoker, receiver, token_id,
                                        start_epoch, amount, step)]_vars

\* C9 (init by a non-account): an init invoked by a contract address, with
\* arguments that pass the zero checks, returns the error InvalidInvoker and
\* persists nothing.
C9_InitByContract ==
    [][(Invoked("init") /\ ~Initialized)
       => \A invoker \in Contracts, receiver \in Receivers, token_id \in TokenIds,
             start_epoch \in TimeArgs, amount \in AmountArgs \ {0},
             step \in StepArgs \ {0} :
            init(invoker, receiver, token_id, start_epoch, amount, step)
              => /\ Returned("InvalidInvoker")
                 /\ storage' = storage]_vars

\* C10 (zero guard of init): on an uninitialized instance an init with
\* step = 0, or with amount = 0 and step # 0, by any caller, returns
\* InvalidArguments and writes no field; the instance stays uninitialized
\* and an init by an account with a nonzero amount, a nonzero step and a
\* start_epoch not before the step then succeeds.
C10_ZeroGuard ==
    ~Initialized
    => \A invoker \in Address, receiver \in Receivers, token_id \in TokenIds,
          start_epoch \in TimeArgs, amount \in AmountArgs, step \in StepArgs :
         LET out == init_outcome(World, invoker, receiver, token_id,
                                 start_epoch, amount, step)
         IN  /\ (step = 0 \/ amount = 0)
                => /\ out.result = "InvalidArguments"
                   /\ out.storage = EmptyStorage
                   /\ out.balance = balance /\ out.allowance = allowance
             /\ (step # 0 /\ amount # 0 /\ start_epoch >= step /\ invoker \in Accounts)
                => /\ init_outcome(Failed("InvalidArguments", World), invoker, receiver,
                                   token_id, start_epoch, amount, step).result = "Ok"

\* an init was turned down for a zero step or a zero amount and left the
\* instance uninitialized
C10_Witness ==
    /\ ~Initialized
    /\ lastCall.op = "init"
    /\ lastCall.result = "InvalidArguments"

\* what an invocation that started in the state w and ended in this state
\* returned and left behind
Left(result) == Outcome(result, storage', balance', allowance')

\* the units of the token t that the account a holds more after the step
Gained(t, a) == balance'[t][a] - balance[t][a]

\* C11 (pinned endpoints): every successful withdraw takes exactly the stored
\* amount of the token named at init from the account that invoked init and
\* gives it to the receiver named at init, and every withdraw by an account
\* returns and leaves what a withdraw by any other account would have.
C11_PinnedEndpoints ==
    [][(Invoked("withdraw") /\ ByAccount)
       => /\ \A a \in Accounts :
                withdraw_outcome(World, now, a) = Left(lastCall'.result)
          /\ Returned("Ok")
                => \A t \in TokenIds, a \in Accounts :
                     Gained(t, a) =
                         (IF t = initArgs.token_id /\ a = initArgs.receiver
                          THEN storage["Amount"] ELSE 0)
                       - (IF t = initArgs.token_id /\ a = initArgs.invoker
                          THEN storage["Amount"] ELSE 0)]_vars

\* a withdraw has moved the amount from the sender to another account, the
\* receiver
C11_Witness ==
    /\ Initialized
    /\ lastCall = [op |-> "withdraw", invoker |-> "Account", result |-> "Ok"]
    /\ initArgs.invoker # initArgs.receiver
    /\ storage["Amount"] > 0
    /\ balance[initArgs.token_id][initArgs.receiver] = InitBalance + storage["Amount"]

\* the allowance over the account a in the token t that the step has used up
Spent(t, a) == allowance[t][a] - allowance'[t][a]

\* C12 (an adjusted amount takes effect on the next withdraw): a successful
\* withdraw moves the amount given to the most recent successful fix_amount,
\* or to init when there was none, and a fix_amount changes neither latest
\* nor step nor start_epoch, so that the next withdraw is eligible at the
\* same times as before.
C12_AmountTakesEffect ==
    [][/\ (Invoked("withdraw") /\ Returned("Ok"))
            => /\ Spent(initArgs.token_id, initArgs.invoker) = lastAmount
               /\ initArgs.invoker # initArgs.receiver
                    => /\ Gained(initArgs.token_id, initArgs.receiver) = lastAmount
                       /\ Gained(initArgs.token_id, initArgs.invoker) = 0 - lastAmount
       /\ (Invoked("fix_amount") /\ Initialized)
            => /\ storage'["Latest"] = storage["Latest"]
               /\ storage'["Step"] = storage["Step"]
               /\ \A t \in 0 .. MaxTime : Eligible(storage', t) <=> Eligible(storage, t)]_vars

\* a withdraw has paid the receiver an amount that a fix_amount had set
C12_Witness ==
    /\ Initialized
    /\ lastCall = [op |-> "withdraw", invoker |-> "Account", result |-> "Ok"]
    /\ initArgs.invoker # initArgs.receiver
    /\ lastAmount # initArgs.amount
    /\ balance[initArgs.token_id][initArgs.receiver] = InitBalance + lastAmount

\* the amounts tried on fix_amount in a state: those of the invocations, the
\* amount stored, and the ends of the i128 range
AmountsTried(st) ==
    AmountArgs \cup {I128Min, I128Max}
               \cup (IF has(st, "Amount") THEN {st["Amount"]} ELSE {})

\* C13 (fix_amount on an initialized record): fix_amount(0) and fix_amount of
\* the amount stored return InvalidArguments and leave the record as it was;
\* fix_amount of any other amount returns Ok and the amount stored is then
\* that amount.
C13_FixAmount ==
    Initialized
    => \A invoker \in Address, amount \in AmountsTried(storage) :
         LET out == fix_amount_outcome(World, invoker, amount)
         IN  IF amount = 0 \/ amount = storage["Amount"]
             THEN out.result = "InvalidArguments" /\ out.storage = storage
             ELSE out.result = "Ok" /\ out.storage["Amount"] = amount

\* after an amount was set by fix_amount, another fix_amount was turned down
C13_Witness ==
    /\ Initialized
    /\ lastCall.op = "fix_amount"
    /\ lastCall.result = "InvalidArguments"
    /\ lastAmount # initArgs.amount
    /\ storage["Amount"] = lastAmount

\* C14 as stated (not-initialized guard): before an init has succeeded, every
\* withdraw and every fix_amount(new_amount) returns ContractNotInitialized,
\* moves no token and leaves the record absent.
C14_NotInitialized_AsStated ==
    ~Initialized
    => \A invoker \in Address :
         /\ withdraw_outcome(World, now, invoker)
                = Failed("ContractNotInitialized", World)
         /\ \A amount \in AmountsTried(storage) :
                fix_amount_outcome(World, invoker, amount)
                  = Failed("ContractNotInitialized", World)

\* C14 (amended): before an init has succeeded, every withdraw and every
\* fix_amount(new_amount) with new_amount # 0 returns
\* ContractNotInitialized and fix_amount(0) returns InvalidArguments; none
\* moves a token and the record stays absent.
C14_NotInitialized ==
    ~Initialized
    => \A invoker \in Address :
         /\ withdraw_outcome(World, now, invoker)
                = Failed("ContractNotInitialized", World)
         /\ \A amount \in AmountsTried(storage) :
                fix_amount_outcome(World, invoker, amount)
                  = Failed(IF amount = 0 THEN "InvalidArguments"
                           ELSE "ContractNotInitialized", World)
         /\ storage = EmptyStorage

\* a fix_amount of a nonzero amount was turned down for want of a record
C14_Witness ==
    /\ ~Initialized
    /\ lastCall.op = "fix_amount"
    /\ lastCall.result = "ContractNotInitialized"

\* the step is an invocation of one of the three contract functions
InvokedAny == now' = now
\* the fields other than those of `keys` keep their values
OnlyWrites(keys) == \A k \in StorageKey \ keys : storage'[k] = storage[k]

C16_AnyCaller ==
    \A amount \in AmountsTried(storage), invoker \in Address :
        LET out == fix_amount_outcome(World, invoker, amount)
        IN  /\ out.result # "InvalidInvoker"
            /\ \A other \in Address :
                    fix_amount_outcome(World, other, amount) = out

\* a contract has set a new amount
C16_Witness ==
    /\ Initialized
    /\ lastCall = [op |-> "fix_amount", invoker |-> "Contract", result |-> "Ok"]
    /\ storage["Amount"] = lastAmount
    /\ lastAmount # initArgs.amount

\* the errors withdraw returns before it attempts the transfer
GateErrors == {"ContractNotInitialized", "InvalidInvoker",
               "PrematureFirstWithdraw", "ReceiverAlreadyWithdrawn"}

C19_AllOrNothing ==
    /\ DOMAIN storage = {} \/ DOMAIN storage = StorageKey
    /\ Initialized => DOMAIN storage = StorageKey
    /\ lastCall.op \in {"withdraw", "fix_amount"} => lastCall.result # "PanicUnwrap"

\* an init by a contract was aborted after its first write and left no field
C19_Witness ==
    /\ DOMAIN storage = {}
    /\ lastCall = [op |-> "init", invoker |-> "Contract", result |-> "PanicUnwrap"]

\* C20 (the product check of init): on an uninitialized instance the checks
\* of init return InvalidArguments exactly when amount = 0 or step = 0; for
\* every nonzero amount of the i128 range and every nonzero step of the u64
\* range, also when amount * step lies outside the i128 range, they neither
\* return InvalidArguments nor abort.
C20_ProductCheck ==
    ~Initialized
    => \A amount \in I128Min .. I128Max, step \in 0 .. (U64Mod - 1) :
         IF amount = 0 \/ step = 0
         THEN init_check(storage, amount, step) = "InvalidArguments"
         ELSE init_check(storage, amount, step) = "Ok"

\* the first time, not before now, at which the payments have started and
\* the next one is due
Max(a, b) == IF a >= b THEN a ELSE b
NextEligible == Max(now, Max(storage["StartEpoch"], Due(storage)))

\* the state as it is once the amount is positive (after a fix_amount when it
\* is not) and the sender holds and has approved that amount
Repaired ==
    Refunded(IF storage["Amount"] > 0 THEN World
             ELSE fix_amount_outcome(World, CHOOSE a \in Accounts : TRUE, 1))

\* C21 (no permanent lock): in every reachable initialized state, a withdraw
\* by an account whose transfer the token contract carries out returns Ok at
\* every time from now on that is not before start_epoch and not before
\* latest + step (the u64 sum of line 177, which the exact sum is never
\* below); and whatever calls led to the state, a withdraw succeeds again
\* once the time is there and the sender can pay a positive amount.
C21_NoPermanentLock ==
    Initialized
    => /\ \A t \in now .. (MaxTime + MaxStep), a \in Accounts :
             (Funded(World, 1) /\ Eligible(storage, t))
               => withdraw_outcome(World, t, a).result = "Ok"
       /\ NextEligible < U64Mod
       /\ \A a \in Accounts :
             withdraw_outcome(Repaired, NextEligible, a).result = "Ok"

\* after a payment that was not the first the next one is already due and
\* the sender can pay it
C21_Witness ==
    /\ Initialized
    /\ lastCall = [op |-> "withdraw", invoker |-> "Account", result |-> "Ok"]
    /\ storage["Latest"] > storage["StartEpoch"]
    /\ Eligible(storage, now)
    /\ storage["Amount"] > 0
    /\ Funded(World, 1)

\* C22 (no overpayment): in every reachable initialized state the number of
\* withdraws that have succeeded is (latest - (start_epoch - step)) / step;
\* it is 0 while now < start_epoch and at most
\* floor((now - start_epoch) / step) + 1 from start_epoch on; after a
\* successful withdraw latest <= now.
C22_NoOverpayment ==
    Initialized
    => /\ withdrawals * storage["Step"]
            = storage["Latest"] - (storage["StartEpoch"] - storage["Step"])
       /\ now < storage["StartEpoch"] => withdrawals = 0
       /\ now >= storage["StartEpoch"]
            => withdrawals <= ((now - storage["StartEpoch"]) \div storage["Step"]) + 1
       /\ withdrawals > 0 => storage["Latest"] <= now

\* C23 (non-zero amount): in every reachable initialized state, whatever
\* init, withdraw and fix_amount calls led to it, the amount stored is not
\* 0, and no successful withdraw has asked for a transfer of 0.
C23_NonZeroAmount ==
    [][Initialized'
       => /\ storage'["Amount"] # 0
          /\ (Invoked("withdraw") /\ Returned("Ok"))
                => Spent(storage["TokenId"], storage["Sender"]) # 0]_vars

\* after a payment a fix_amount has set another nonzero amount
C23_Witness ==
    /\ Initialized
    /\ withdrawals > 0
    /\ lastCall.op = "fix_amount"
    /\ lastCall.result = "Ok"
    /\ storage["Amount"] = lastAmount
    /\ storage["Amount"] # 0

\* C24 (PrematureFirstWithdraw only before the first payment): once a
\* withdraw has succeeded no withdraw returns PrematureFirstWithdraw, the
\* only error of the time checks being ReceiverAlreadyWithdrawn: the time
\* has reached start_epoch and neither goes back.
C24_PrematureOnlyFirst ==
    [][withdrawals > 0
       => /\ Invoked("withdraw")
                => /\ ~Returned("PrematureFirstWithdraw")
                   /\ (ByAccount /\ ~Eligible(storage, now))
                        => Returned("ReceiverAlreadyWithdrawn")
          /\ storage["StartEpoch"] <= now]_vars

\* after the first payment a withdraw was turned down, as too soon
C24_Witness ==
    /\ Initialized
    /\ withdrawals > 0
    /\ lastCall = [op |-> "withdraw", invoker |-> "Account",
                   result |-> "ReceiverAlreadyWithdrawn"]

=============================================================================
